---- MODULE Spec2Model ----
(***************************************************************************)
(* Model of packages/plugins/thorchain/src/basePlugin.ts: the protocol     *)
(* adapter returned by basePlugin().  One invocation of an exposed         *)
(* operation is in progress at a time; every await of the source is a      *)
(* step of the model.  What the collaborators answer (the inbound address  *)
(* table, the mimir record, the outcome of deposit, the wallet's answer)   *)
(* is drawn at the step that awaits it.  The calls made by the invocation  *)
(* are logged in lookups, mimirs, deposits and walletCalls.                *)
(***************************************************************************)
EXTENDS Integers, Sequences, FiniteSets, TLC

VARIABLES
    pluginChain,  \* constructor parameter: Chain.THORChain | Chain.Maya
    wallets,      \* constructor parameter: chain -> wallet handle
    op,           \* exposed operation in progress, "idle" when none
    args,         \* the parameters it was called with
    pc,           \* position of the invocation
    legs,         \* pool deposits still to be made, in order
    route,        \* inbound data resolved for the deposit about to be made
    lookups,      \* getInboundDataByChain calls of this invocation
    mimirs,       \* SwapKitApi.getMimirInfo answers of this invocation
    deposits,     \* deposit calls of this invocation
    walletCalls,  \* wallet capability calls of this invocation
    result        \* settlement of the returned promise

vars == <<pluginChain, wallets, op, args, pc, legs, route, lookups, mimirs,
          deposits, walletCalls, result>>

config == <<pluginChain, wallets>>

(***************************************************************************)
(* Bounds of the model.                                                    *)
(***************************************************************************)
MaxInbound == 2   \* entries in a table answered by getInboundAddresses
MaxAmount == 1    \* largest base value of a caller's asset value

(***************************************************************************)
(* Chains and asset values.                                                *)
(***************************************************************************)
Chains == {"THOR", "MAYA", "BTC", "ETH"}

EVMChains == {"ETH"}

Asset(chain, symbol, ticker, gas, synth, address) ==
    [chain |-> chain, symbol |-> symbol, ticker |-> ticker, isGasAsset |-> gas,
     isSynthetic |-> synth, address |-> address]

RUNE == Asset("THOR", "RUNE", "RUNE", TRUE, FALSE, "")
CACAO == Asset("MAYA", "CACAO", "CACAO", TRUE, FALSE, "")
BTC == Asset("BTC", "BTC", "BTC", TRUE, FALSE, "")
ETH == Asset("ETH", "ETH", "ETH", TRUE, FALSE, "")
USDC == Asset("ETH", "USDC-0XA0B8", "USDC", FALSE, FALSE, "0xa0b8")
TKN == Asset("ETH", "TKN", "TKN", FALSE, FALSE, "")
SynthBTC == Asset("THOR", "BTC/BTC", "BTC", FALSE, TRUE, "")
SynthETH == Asset("MAYA", "ETH/ETH", "ETH", FALSE, TRUE, "")

Assets == {RUNE, CACAO, BTC, ETH, USDC, TKN, SynthBTC, SynthETH}

Value(asset, n) ==
    [chain |-> asset.chain, symbol |-> asset.symbol, ticker |-> asset.ticker,
     isGasAsset |-> asset.isGasAsset, isSynthetic |-> asset.isSynthetic,
     address |-> asset.address, baseValue |-> n]

\* an absent (undefined) asset value
Undefined == Value(Asset("", "", "", FALSE, FALSE, ""), 0)

Amounts == 0..MaxAmount

AssetValues == {Value(a, n) : a \in Assets, n \in Amounts}

gt(av, n) == av # Undefined /\ av.baseValue > n
lte(av, n) == av.baseValue <= n
getBaseValue(av) == av.baseValue
toString(av) == <<av.chain, av.symbol>>

\* AssetValue.from({ chain }): the chain's gas asset
AssetValueFrom(chain) ==
    CASE chain = "THOR" -> Value(RUNE, 0)
      [] chain = "MAYA" -> Value(CACAO, 0)
      [] chain = "BTC" -> Value(BTC, 0)
      [] chain = "ETH" -> Value(ETH, 0)

MinAmount(chain) ==
    CASE chain \in {"THOR", "MAYA"} -> 0
      [] chain = "BTC" -> 10001
      [] OTHER -> 1

getMinAmountByChain(chain) ==
    [AssetValueFrom(chain) EXCEPT !.baseValue = MinAmount(chain)]

(***************************************************************************)
(* Errors.  A SwapKitError carries its key and, when it wraps another      *)
(* error, that error's key as its cause.                                   *)
(***************************************************************************)
NoError == [tag |-> "", cause |-> ""]
SwapKitError(key) == [tag |-> key, cause |-> ""]
SwapKitErrorFrom(key, error) == [tag |-> key, cause |-> error.tag]

\* wrapWithThrow(fn, errorKey): a failure of fn is re-thrown under errorKey
wrapWithThrow(error, errorKey) ==
    IF errorKey = "" THEN error ELSE SwapKitErrorFrom(errorKey, error)

(***************************************************************************)
(* Inbound addresses: the table answered by SwapKitApi.getInboundAddresses *)
(* and the lookup of one chain in it.                                      *)
(***************************************************************************)
InboundChains == {"BTC", "ETH", "THOR"}

\* gas_rate is a decimal string (a sequence of digits) or absent (<<>>)
GasRateOf(chain) ==
    CASE chain = "BTC" -> <<2, 5>>
      [] chain = "ETH" -> <<1, 0>>
      [] OTHER -> <<>>

RouterOf(chain) == IF chain \in EVMChains THEN "0xrouter" ELSE ""

PoolOf(chain) ==
    CASE chain = "BTC" -> "bc1qpool"
      [] chain = "ETH" -> "0xpool"
      [] OTHER -> "thor1pool"

InboundEntry(chain, halted) ==
    [chain |-> chain, halted |-> halted, gas_rate |-> GasRateOf(chain),
     router |-> RouterOf(chain), address |-> PoolOf(chain)]

InboundEntries == {InboundEntry(c, h) : c \in InboundChains, h \in BOOLEAN}

InboundTables ==
    UNION {[1..n -> InboundEntries] : n \in 0..MaxInbound}

NotFound ==
    [chain |-> "", halted |-> FALSE, gas_rate |-> <<>>, router |-> "",
     address |-> ""]

\* inboundData.find((item) => item.chain === chain): the first match
RECURSIVE find(_, _)
find(inboundData, chain) ==
    IF inboundData = <<>> THEN NotFound
    ELSE IF Head(inboundData).chain = chain THEN Head(inboundData)
    ELSE find(Tail(inboundData), chain)

\* const type = pluginChain === Chain.Maya ? "mayachain" : "thorchain"
type(chain) == IF chain = "MAYA" THEN "mayachain" ELSE "thorchain"

\* the short-circuit written for thorchain only
isOwnChain_thorOnly(paramsType, chain) ==
    paramsType = "thorchain" /\ chain = "THOR"

isOwnChain(paramsType, chain) ==
    \/ paramsType = "thorchain" /\ chain = "THOR"
    \/ paramsType = "mayachain" /\ chain = "MAYA"

\* getInboundDataByChain without the check of the entry's halted flag
getInboundDataByChain_noHaltCheck(paramsType, chain, inboundData) ==
    IF isOwnChain(paramsType, chain)
    THEN [api |-> FALSE, found |-> NotFound, error |-> NoError,
          data |-> [chain |-> chain, halted |-> FALSE, gas_rate |-> <<0>>,
                    router |-> "", address |-> ""]]
    ELSE LET chainAddressData == find(inboundData, chain) IN
         IF chainAddressData = NotFound
         THEN [api |-> TRUE, found |-> NotFound,
               error |-> SwapKitError("core_inbound_data_not_found"),
               data |-> NotFound]
         ELSE [api |-> TRUE, found |-> chainAddressData, error |-> NoError,
               data |-> chainAddressData]

\* getInboundDataByChain(chain), given what the API would answer.  api tells
\* whether getInboundAddresses was called; found is the entry of the chain.
getInboundDataByChain(paramsType, chain, inboundData) ==
    IF isOwnChain(paramsType, chain)
    THEN [api |-> FALSE, found |-> NotFound, error |-> NoError,
          data |-> [chain |-> chain, halted |-> FALSE, gas_rate |-> <<0>>,
                    router |-> "", address |-> ""]]
    ELSE LET chainAddressData == find(inboundData, chain) IN
         IF chainAddressData = NotFound
         THEN [api |-> TRUE, found |-> NotFound,
               error |-> SwapKitError("core_inbound_data_not_found"),
               data |-> NotFound]
         ELSE IF chainAddressData.halted
         THEN [api |-> TRUE, found |-> chainAddressData,
               error |-> SwapKitError("core_chain_halted"), data |-> NotFound]
         ELSE [api |-> TRUE, found |-> chainAddressData, error |-> NoError,
               data |-> chainAddressData]

Lookup(leg, chain, r) ==
    [leg |-> leg, chain |-> chain, api |-> r.api, found |-> r.found,
     error |-> r.error]

(***************************************************************************)
(* Fee rate: Number.parseInt(gas_rate) * gasFeeMultiplier[feeOptionKey].   *)
(* The multipliers 1.2, 1.5 and 2 are kept in tenths, and so is the fee    *)
(* rate handed to deposit.                                                 *)
(***************************************************************************)
FeeOptions == {"average", "fast", "fastest"}

gasFeeMultiplier(feeOptionKey) ==
    CASE feeOptionKey = "average" -> 12
      [] feeOptionKey = "fast" -> 15
      [] feeOptionKey = "fastest" -> 20

RECURSIVE parseIntFrom(_, _)
parseIntFrom(digits, acc) ==
    IF digits = <<>> THEN acc
    ELSE parseIntFrom(Tail(digits), 10 * acc + Head(digits))

parseInt(digits) == parseIntFrom(digits, 0)

\* const { gas_rate = "0" } = ...: the default applies to an absent gas_rate
gasRateOrDefault(gas_rate) == IF gas_rate = <<>> THEN <<0>> ELSE gas_rate

feeRate(gas_rate, feeOptionKey) ==
    parseInt(gasRateOrDefault(gas_rate)) * gasFeeMultiplier(feeOptionKey)

(***************************************************************************)
(* Memos.  A memo string is kept as the record of the fields its builder   *)
(* writes into it; NoMemo is the empty (or absent) string.                 *)
(***************************************************************************)
NoMemo ==
    [type |-> "", chain |-> "", symbol |-> "", ticker |-> "", address |-> "",
     basisPoints |-> 0, targetAsset |-> <<>>, amount |-> 0, name |-> ""]

CustomMemo == [NoMemo EXCEPT !.type = "custom"]

getMemoForDeposit(chain, symbol, address) ==
    [NoMemo EXCEPT !.type = "+", !.chain = chain, !.symbol = symbol,
                   !.address = address]

getMemoForSaverDeposit(chain, symbol) ==
    [NoMemo EXCEPT !.type = "saver+", !.chain = chain, !.symbol = symbol]

getMemoForSaverWithdraw(chain, symbol, basisPoints) ==
    [NoMemo EXCEPT !.type = "saver-", !.chain = chain, !.symbol = symbol,
                   !.basisPoints = basisPoints]

getMemoForWithdraw(chain, symbol, ticker, basisPoints, targetAsset) ==
    [NoMemo EXCEPT !.type = "-", !.chain = chain, !.symbol = symbol,
                   !.ticker = ticker, !.basisPoints = basisPoints,
                   !.targetAsset = targetAsset]

getMemoForUnbond(address, unbondAmount) ==
    [NoMemo EXCEPT !.type = "UNBOND", !.address = address,
                   !.amount = unbondAmount]

getMemoForLeaveAndBond(memoType, address) ==
    [NoMemo EXCEPT !.type = memoType, !.address = address]

getMemoForNameRegister(name, address) ==
    [NoMemo EXCEPT !.type = "~", !.name = name, !.address = address]

(***************************************************************************)
(* Wallets.                                                                *)
(***************************************************************************)
WalletAddress(chain) ==
    CASE chain = "THOR" -> "thor1wallet"
      [] chain = "MAYA" -> "maya1wallet"
      [] chain = "BTC" -> "bc1qwallet"
      [] chain = "ETH" -> "0xwallet"

NoWallet ==
    [connected |-> FALSE, address |-> "", isApproved |-> FALSE,
     approve |-> FALSE]

Wallet(chain, isApproved, approve) ==
    [connected |-> TRUE, address |-> WalletAddress(chain),
     isApproved |-> isApproved, approve |-> approve]

WalletConfigs ==
    { [c \in Chains |-> NoWallet],
      [c \in Chains |-> Wallet(c, c \in EVMChains, c \in EVMChains)],
      [c \in Chains |->
          IF c = "ETH" THEN Wallet(c, TRUE, FALSE)
          ELSE IF c = "BTC" THEN Wallet(c, FALSE, FALSE) ELSE NoWallet],
      [c \in Chains |->
          IF c = "ETH" THEN [Wallet(c, TRUE, TRUE) EXCEPT !.address = ""]
          ELSE Wallet(c, FALSE, FALSE)] }

\* getAddress(wallets, chain) of ./shared
getAddress(w, chain) == IF w[chain].connected THEN w[chain].address ELSE ""

(***************************************************************************)
(* The invocation in progress.                                             *)
(***************************************************************************)
NoArgs ==
    [assetValue |-> Undefined, baseAssetValue |-> Undefined, memo |-> NoMemo,
     percent |-> 0, type |-> "", from |-> "", to |-> "", mode |-> "",
     isPendingSymmAsset |-> FALSE, baseAssetAddr |-> "", assetAddr |-> "",
     address |-> "", symmetric |-> FALSE, poolAddress |-> <<>>,
     feeOptionKey |-> "", name |-> ""]

NoResult == [status |-> "none", error |-> NoError, value |-> ""]
Pending == [NoResult EXCEPT !.status = "pending"]
Resolved(value) == [status |-> "resolved", error |-> NoError, value |-> value]
Rejected(error) == [status |-> "rejected", error |-> error, value |-> ""]

NoRoute == NotFound

Leg(leg, assetValue, memo, feeOptionKey, errorKey) ==
    [leg |-> leg, assetValue |-> assetValue, memo |-> memo,
     feeOptionKey |-> feeOptionKey, errorKey |-> errorKey]

Idle == pc = "idle"

\* an exposed operation is entered and suspends at its first await
Start(name, a, newLegs, at) ==
    /\ Idle
    /\ op' = name
    /\ args' = a
    /\ pc' = at
    /\ legs' = newLegs
    /\ result' = Pending
    /\ UNCHANGED <<config, route, lookups, mimirs, deposits, walletCalls>>

\* an exposed operation throws before its first await
Throw(name, a, error) ==
    /\ Idle
    /\ op' = name
    /\ args' = a
    /\ pc' = "done"
    /\ legs' = <<>>
    /\ result' = Rejected(error)
    /\ UNCHANGED <<config, route, lookups, mimirs, deposits, walletCalls>>

Init ==
    /\ pluginChain \in {"THOR", "MAYA"}
    /\ wallets \in WalletConfigs
    /\ op = "idle"
    /\ args = NoArgs
    /\ pc = "idle"
    /\ legs = <<>>
    /\ route = NoRoute
    /\ lookups = <<>>
    /\ mimirs = <<>>
    /\ deposits = <<>>
    /\ walletCalls = <<>>
    /\ result = NoResult

(***************************************************************************)
(* approve, approveAssetValue, isAssetValueApproved                        *)
(***************************************************************************)
isEVMChain(chain) == chain \in EVMChains

\* the shortcut without its isNativeEVM case
needsNoAllowance_noNativeEVM(av) ==
    \/ ~isEVMChain(av.chain)
    \/ av.isSynthetic

\* isNativeEVM || !isEVMChain || isSynthetic
needsNoAllowance(av) ==
    \/ isEVMChain(av.chain) /\ av.isGasAsset
    \/ ~isEVMChain(av.chain)
    \/ av.isSynthetic

hasWalletAction(walletMethods, mode) ==
    /\ walletMethods.connected
    /\ IF mode = "checkOnly" THEN walletMethods.isApproved
       ELSE walletMethods.approve

WalletCall(av, mode, from, router) ==
    [method |-> IF mode = "checkOnly" THEN "isApproved" ELSE "approve",
     amount |-> getBaseValue(av), assetAddress |-> av.address, from |-> from,
     spenderAddress |-> router]

\* the body of approve after the route has been resolved to `router`;
\* answer is what the wallet capability does when it is invoked
approveWith(av, mode, w, router, answer) ==
    IF needsNoAllowance(av)
    THEN [calls |-> <<>>,
          result |-> Resolved(IF mode = "checkOnly" THEN "true" ELSE "approved")]
    ELSE LET walletMethods == w[av.chain] IN
         IF ~hasWalletAction(walletMethods, mode)
         THEN [calls |-> <<>>,
               result |-> Rejected(SwapKitError("core_wallet_connection_not_found"))]
         ELSE LET from == walletMethods.address IN
              IF ~(av.address # "" /\ from # "")
              THEN [calls |-> <<>>,
                    result |-> Rejected(SwapKitError(
                        "core_approve_asset_address_or_from_not_found"))]
              ELSE [calls |-> <<WalletCall(av, mode, from, router)>>,
                    result |-> IF answer = "throw"
                               THEN Rejected(SwapKitError("wallet_error"))
                               ELSE Resolved(answer)]

WalletAnswers == {"wallet_answer", "throw"}

approveAssetValue ==
    /\ Idle
    /\ \E av \in AssetValues :
           Start("approveAssetValue",
                 [NoArgs EXCEPT !.assetValue = av, !.type = "approve"],
                 <<>>, "approve")

isAssetValueApproved ==
    /\ Idle
    /\ \E av \in AssetValues :
           Start("isAssetValueApproved",
                 [NoArgs EXCEPT !.assetValue = av, !.type = "checkOnly"],
                 <<>>, "approve")

approve ==
    /\ pc = "approve"
    /\ \E inboundData \in InboundTables, answer \in WalletAnswers :
        LET av == args.assetValue
            r == getInboundDataByChain(type(pluginChain), av.chain, inboundData)
            out == approveWith(av, args.type, wallets, r.data.router, answer)
        IN /\ lookups' = Append(lookups, Lookup("approve", av.chain, r))
           /\ IF r.error # NoError
              THEN /\ result' = Rejected(r.error)
                   /\ walletCalls' = walletCalls
              ELSE /\ result' = out.result
                   /\ walletCalls' = walletCalls \o out.calls
    /\ pc' = "done"
    /\ UNCHANGED <<config, op, args, legs, route, mimirs, deposits>>

(***************************************************************************)
(* depositToPool and the caller-supplied deposit                           *)
(***************************************************************************)
DepositCall(l, recipient, router, fee) ==
    [leg |-> l.leg, assetValue |-> l.assetValue, recipient |-> recipient,
     memo |-> l.memo, router |-> router, feeRate |-> fee,
     outcome |-> "pending"]

\* the invocation ends with the failure of the leg in progress
FailLeg(error) ==
    /\ result' = Rejected(wrapWithThrow(error, Head(legs).errorKey))
    /\ pc' = "done"

\* depositToPool, first half: await getInboundDataByChain(assetValue.chain)
depositToPoolResolve ==
    /\ pc = "route"
    /\ \E inboundData \in InboundTables :
        LET l == Head(legs)
            r == getInboundDataByChain(type(pluginChain), l.assetValue.chain,
                                       inboundData)
        IN /\ lookups' = Append(lookups, Lookup(l.leg, l.assetValue.chain, r))
           /\ IF r.error # NoError
              THEN FailLeg(r.error) /\ route' = route
              ELSE /\ route' = r.data
                   /\ pc' = "deposit"
                   /\ result' = result
    /\ UNCHANGED <<config, op, args, legs, mimirs, deposits, walletCalls>>

\* depositToPool, second half: deposit({ assetValue, recipient, memo, router, feeRate })
depositToPoolDeposit ==
    /\ pc = "deposit"
    /\ LET l == Head(legs) IN
        deposits' = Append(deposits,
            DepositCall(l, route.address, <<route.router>>,
                        <<feeRate(route.gas_rate, l.feeOptionKey)>>))
    /\ pc' = "await"
    /\ route' = NoRoute
    /\ UNCHANGED <<config, op, args, legs, lookups, mimirs, walletCalls, result>>

\* where the invocation continues once the deposit of the leg in progress
\* has returned
afterDeposit(remaining) ==
    IF remaining = <<>> THEN "done"
    ELSE IF Head(remaining).leg = "protocol" THEN "mimir" ELSE "route"

\* the caller-supplied deposit returns a transaction id or throws
deposit ==
    /\ pc = "await"
    /\ \E outcome \in {"ok", "throw"} :
        /\ deposits' = [deposits EXCEPT ![Len(deposits)].outcome = outcome]
        /\ IF outcome = "throw"
           THEN FailLeg(SwapKitError("deposit_error")) /\ legs' = legs
           ELSE /\ legs' = Tail(legs)
                /\ pc' = afterDeposit(Tail(legs))
                /\ result' = IF Tail(legs) = <<>> THEN Resolved("tx") ELSE result
    /\ UNCHANGED <<config, op, args, route, lookups, mimirs, walletCalls>>

\* feeOptionKey = FeeOption.Fast
FeeOptionFast == "fast"

feeOptionOrDefault(feeOptionKey) ==
    IF feeOptionKey = "" THEN FeeOptionFast ELSE feeOptionKey

\* a pool deposit made on behalf of an exposed operation
PoolLeg(leg, assetValue, memo, errorKey) ==
    Leg(leg, assetValue, memo, feeOptionOrDefault(""), errorKey)

depositToPool ==
    /\ Idle
    /\ \E av \in AssetValues, feeOptionKey \in FeeOptions \cup {""} :
           Start("depositToPool",
                 [NoArgs EXCEPT !.assetValue = av, !.memo = CustomMemo,
                                !.feeOptionKey = feeOptionKey],
                 <<Leg("pool", av, CustomMemo, feeOptionOrDefault(feeOptionKey), "")>>,
                 "route")

(***************************************************************************)
(* depositToProtocol, register, nodeAction                                 *)
(***************************************************************************)
MimirValues == {-1, 0, 1, 2}

Mimirs == [HALTCHAINGLOBAL : MimirValues, HALTTHORCHAIN : MimirValues]

\* the halt threshold taken as > 1
isHalted_above1(mimir) == mimir.HALTCHAINGLOBAL > 1 \/ mimir.HALTTHORCHAIN > 1

isHalted(mimir) == mimir.HALTCHAINGLOBAL >= 1 \/ mimir.HALTTHORCHAIN >= 1

depositToProtocol ==
    /\ pc = "mimir"
    /\ \E mimir \in Mimirs :
        /\ mimirs' = Append(mimirs, mimir)
        /\ IF isHalted(mimir)
           THEN /\ FailLeg(SwapKitError("thorchain_chain_halted"))
                /\ deposits' = deposits
           ELSE /\ deposits' = Append(deposits,
                                      DepositCall(Head(legs), "", <<>>, <<>>))
                /\ pc' = "await"
                /\ result' = result
    /\ UNCHANGED <<config, op, args, legs, route, lookups, walletCalls>>

Names == {"alice"}
NodeAddresses == {"thor1node"}
MemoTypes == {"BOND", "UNBOND", "LEAVE"}

register ==
    /\ Idle
    /\ \E av \in AssetValues, name \in Names, address \in NodeAddresses :
           Start("register",
                 [NoArgs EXCEPT !.assetValue = av, !.name = name,
                                !.address = address],
                 <<Leg("protocol", av, getMemoForNameRegister(name, address), "", "")>>,
                 "mimir")

nodeActionMemo(memoType, assetValue, address) ==
    IF memoType = "UNBOND"
    THEN getMemoForUnbond(address, getBaseValue(assetValue))
    ELSE getMemoForLeaveAndBond(memoType, address)

\* the caller's value kept for every type but leave
nodeActionTransfer_unbondValue(memoType, assetValue, chain) ==
    IF memoType # "LEAVE" THEN assetValue ELSE getMinAmountByChain(chain)

nodeActionTransfer(memoType, assetValue, chain) ==
    IF memoType = "BOND" THEN assetValue ELSE getMinAmountByChain(chain)

nodeAction ==
    /\ Idle
    /\ \E memoType \in MemoTypes, av \in AssetValues, address \in NodeAddresses :
           Start("nodeAction",
                 [NoArgs EXCEPT !.type = memoType, !.assetValue = av,
                                !.address = address],
                 <<Leg("protocol", nodeActionTransfer(memoType, av, pluginChain),
                       nodeActionMemo(memoType, av, address), "", "")>>,
                 "mimir")

(***************************************************************************)
(* createLiquidity, addLiquidityPart, addLiquidity                         *)
(***************************************************************************)
BaseValues == {Value(a, n) : a \in {RUNE, BTC}, n \in Amounts}
PoolValues == {Value(a, n) : a \in {BTC, ETH}, n \in Amounts}
CallerAddresses == {"", "caller"}
Modes == {"sym", "baseAsset", "asset"}

\* the two deposits issued in the other order
createLiquidityLegs_assetFirst(baseAssetValue, assetValue, w, chain) ==
    LET assetAddress == getAddress(w, assetValue.chain)
        baseAssetAddress == getAddress(w, chain)
    IN << PoolLeg("asset", assetValue,
                  getMemoForDeposit(assetValue.chain, assetValue.symbol,
                                    baseAssetAddress),
                  "core_transaction_create_liquidity_asset_error"),
          PoolLeg("base", baseAssetValue,
                  getMemoForDeposit(assetValue.chain, assetValue.symbol,
                                    assetAddress),
                  "core_transaction_create_liquidity_base_error") >>

createLiquidityLegs(baseAssetValue, assetValue, w, chain) ==
    LET assetAddress == getAddress(w, assetValue.chain)
        baseAssetAddress == getAddress(w, chain)
    IN << PoolLeg("base", baseAssetValue,
                  getMemoForDeposit(assetValue.chain, assetValue.symbol,
                                    assetAddress),
                  "core_transaction_create_liquidity_base_error"),
          PoolLeg("asset", assetValue,
                  getMemoForDeposit(assetValue.chain, assetValue.symbol,
                                    baseAssetAddress),
                  "core_transaction_create_liquidity_asset_error") >>

createLiquidity ==
    /\ Idle
    /\ \E baseAssetValue \in BaseValues, assetValue \in PoolValues :
           LET a == [NoArgs EXCEPT !.baseAssetValue = baseAssetValue,
                                   !.assetValue = assetValue]
           IN IF lte(baseAssetValue, 0) \/ lte(assetValue, 0)
              THEN Throw("createLiquidity", a, SwapKitError(
                       "core_transaction_create_liquidity_invalid_params"))
              ELSE Start("createLiquidity", a,
                         createLiquidityLegs(baseAssetValue, assetValue, wallets,
                                             pluginChain),
                         "route")

PoolAddresses == {<<"BTC", "BTC">>, <<"ETH", "USDC-0XA0B8">>}

addLiquidityPart ==
    /\ Idle
    /\ \E assetValue \in PoolValues, poolAddress \in PoolAddresses,
          address \in CallerAddresses, symmetric \in BOOLEAN :
           LET a == [NoArgs EXCEPT !.assetValue = assetValue,
                                   !.poolAddress = poolAddress,
                                   !.address = address, !.symmetric = symmetric]
               memo == getMemoForDeposit(poolAddress[1], poolAddress[2],
                                         IF symmetric THEN address ELSE "")
           IN IF symmetric /\ address = ""
              THEN Throw("addLiquidityPart", a, SwapKitError(
                       "core_transaction_add_liquidity_invalid_params"))
              ELSE Start("addLiquidityPart", a,
                         <<PoolLeg("pool", assetValue, memo, "")>>, "route")

isSym(a) == a.mode = "sym"

\* the base leg active whatever the mode
baseTransfer_anyMode(a) == gt(a.baseAssetValue, 0)

baseTransfer(a) ==
    gt(a.baseAssetValue, 0) /\ (isSym(a) \/ a.mode = "baseAsset")

assetTransfer(a) ==
    gt(a.assetValue, 0) /\ (isSym(a) \/ a.mode = "asset")

includeBaseAddress(a) == a.isPendingSymmAsset \/ baseTransfer(a)

\* a || b on strings
orElse(a, b) == IF a # "" THEN a ELSE b

baseAddress(a, w, chain) ==
    IF includeBaseAddress(a) THEN orElse(a.baseAssetAddr, getAddress(w, chain))
    ELSE ""

assetAddress(a, w) ==
    IF isSym(a) \/ a.mode = "asset"
    THEN orElse(a.assetAddr, getAddress(w, a.assetValue.chain))
    ELSE ""

\* the asset leg wrapped under the base leg's error key
addLiquidityLegs_baseKeyOnAsset(a, w, chain) ==
    (IF baseTransfer(a) /\ a.baseAssetValue # Undefined
     THEN << PoolLeg("base", a.baseAssetValue,
                     getMemoForDeposit(a.assetValue.chain, a.assetValue.symbol,
                                       assetAddress(a, w)),
                     "core_transaction_add_liquidity_base_error") >>
     ELSE <<>>)
    \o
    (IF assetTransfer(a) /\ a.assetValue # Undefined
     THEN << PoolLeg("asset", a.assetValue,
                     getMemoForDeposit(a.assetValue.chain, a.assetValue.symbol,
                                       baseAddress(a, w, chain)),
                     "core_transaction_add_liquidity_base_error") >>
     ELSE <<>>)

addLiquidityLegs(a, w, chain) ==
    (IF baseTransfer(a) /\ a.baseAssetValue # Undefined
     THEN << PoolLeg("base", a.baseAssetValue,
                     getMemoForDeposit(a.assetValue.chain, a.assetValue.symbol,
                                       assetAddress(a, w)),
                     "core_transaction_add_liquidity_base_error") >>
     ELSE <<>>)
    \o
    (IF assetTransfer(a) /\ a.assetValue # Undefined
     THEN << PoolLeg("asset", a.assetValue,
                     getMemoForDeposit(a.assetValue.chain, a.assetValue.symbol,
                                       baseAddress(a, w, chain)),
                     "core_transaction_add_liquidity_asset_error") >>
     ELSE <<>>)

addLiquidity ==
    /\ Idle
    /\ \E baseAssetValue \in BaseValues \cup {Undefined}, assetValue \in PoolValues,
          baseAssetAddr \in CallerAddresses, assetAddr \in CallerAddresses,
          isPendingSymmAsset \in BOOLEAN, mode \in Modes :
           LET a == [NoArgs EXCEPT !.baseAssetValue = baseAssetValue,
                                   !.assetValue = assetValue,
                                   !.baseAssetAddr = baseAssetAddr,
                                   !.assetAddr = assetAddr,
                                   !.isPendingSymmAsset = isPendingSymmAsset,
                                   !.mode = mode]
           IN IF ~(baseTransfer(a) \/ assetTransfer(a))
              THEN Throw("addLiquidity", a, SwapKitError(
                       "core_transaction_add_liquidity_invalid_params"))
              ELSE IF includeBaseAddress(a) /\ baseAddress(a, wallets, pluginChain) = ""
              THEN Throw("addLiquidity", a, SwapKitError(
                       "core_transaction_add_liquidity_base_address"))
              ELSE Start("addLiquidity", a,
                         addLiquidityLegs(a, wallets, pluginChain), "route")

(***************************************************************************)
(* savings, withdraw                                                       *)
(***************************************************************************)
\* percent is kept in thousandths: 12345 is 12.345 (percent)
Percents == {-5000, 0, 12345, 50000, 100000, 150000}

\* Math.round(percent * 100): the nearest integer, halves upwards
roundPercentTimes100(percent) == (percent + 5) \div 10

Min(a, b) == IF a <= b THEN a ELSE b

\* Math.min(10000, Math.round(percent * 100))
basisPoints(percent) == Min(10000, roundPercentTimes100(percent))

CallerMemos == {NoMemo, CustomMemo}

\* memo || memoString
memoOr(memo, memoString) == IF memo # NoMemo THEN memo ELSE memoString

savingsMemo(a) ==
    IF a.type = "add"
    THEN getMemoForSaverDeposit(a.assetValue.chain, a.assetValue.symbol)
    ELSE getMemoForSaverWithdraw(a.assetValue.chain, a.assetValue.symbol,
                                 basisPoints(a.percent))

savingsValue(a) ==
    IF a.type = "add" THEN a.assetValue
    ELSE getMinAmountByChain(a.assetValue.chain)

savings ==
    /\ Idle
    /\ \E assetValue \in PoolValues, memo \in CallerMemos, percent \in Percents,
          savingsType \in {"add", "withdraw"} :
           LET a == [NoArgs EXCEPT !.assetValue = assetValue, !.memo = memo,
                                   !.percent = percent, !.type = savingsType]
           IN Start("savings", a,
                    <<PoolLeg("pool", savingsValue(a),
                              memoOr(memo, savingsMemo(a)), "")>>,
                    "route")

\* the from = asset case tested before the to = baseAsset case
targetAsset_fromFirst(a, chain) ==
    IF (a.from = "sym" /\ a.to = "sym") \/ a.from = "baseAsset"
       \/ a.from = "asset"
    THEN <<>>
    ELSE IF a.to = "baseAsset" /\ a.from # "baseAsset"
    THEN toString(AssetValueFrom(chain))
    ELSE toString(a.assetValue)

\* targetAsset?.toString(), <<>> when there is no target asset
targetAsset(a, chain) ==
    IF a.to = "baseAsset" /\ a.from # "baseAsset"
    THEN toString(AssetValueFrom(chain))
    ELSE IF (a.from = "sym" /\ a.to = "sym") \/ a.from = "baseAsset"
            \/ a.from = "asset"
    THEN <<>>
    ELSE toString(a.assetValue)

withdrawValue(a, chain) ==
    getMinAmountByChain(IF a.from = "asset" THEN a.assetValue.chain ELSE chain)

withdrawMemo(a, chain) ==
    memoOr(a.memo,
           getMemoForWithdraw(a.assetValue.chain, a.assetValue.symbol,
                              a.assetValue.ticker, basisPoints(a.percent),
                              targetAsset(a, chain)))

withdraw ==
    /\ Idle
    /\ \E assetValue \in PoolValues, memo \in CallerMemos, percent \in Percents,
          from \in Modes, to \in Modes :
           LET a == [NoArgs EXCEPT !.assetValue = assetValue, !.memo = memo,
                                   !.percent = percent, !.from = from, !.to = to]
           IN Start("withdraw", a,
                    <<PoolLeg("pool", withdrawValue(a, pluginChain),
                              withdrawMemo(a, pluginChain), "")>>,
                    "route")

\* the settled promise is handed to the caller; the adapter keeps nothing
Return ==
    /\ pc = "done"
    /\ op' = "idle"
    /\ args' = NoArgs
    /\ pc' = "idle"
    /\ legs' = <<>>
    /\ route' = NoRoute
    /\ lookups' = <<>>
    /\ mimirs' = <<>>
    /\ deposits' = <<>>
    /\ walletCalls' = <<>>
    /\ result' = NoResult
    /\ UNCHANGED config

Next ==
    \/ approveAssetValue
    \/ isAssetValueApproved
    \/ approve
    \/ depositToPool
    \/ depositToPoolResolve
    \/ depositToPoolDeposit
    \/ deposit
    \/ depositToProtocol
    \/ register
    \/ nodeAction
    \/ createLiquidity
    \/ addLiquidityPart
    \/ addLiquidity
    \/ savings
    \/ withdraw
    \/ Return

Spec == Init /\ [][Next]_vars

(***************************************************************************)
(* Properties                                                              *)
(***************************************************************************)
Done == pc = "done"
TwoLeg == op \in {"createLiquidity", "addLiquidity"}
FailedWith(key) == result.status = "rejected" /\ result.error.tag = key
CausedBy(key) ==
    result.status = "rejected"
    /\ (result.error.tag = key \/ result.error.cause = key)
HaltedLookup(i) == lookups[i].found.halted

\* C1, as stated: whenever the routing entry found for a chain is halted, the
\* operation that looked it up fails with ChainHalted (directly or as the
\* cause under a leg tag) and the invocation has made no deposit call.
C1_HaltedFailsBeforeAnyDeposit ==
    \A i \in DOMAIN lookups :
        HaltedLookup(i) => CausedBy("core_chain_halted") /\ deposits = <<>>

\* C1, amended: a halted routing entry ends the invocation at that lookup with
\* ChainHalted (directly, or as the cause under the leg's tag in the two-leg
\* operations) and no deposit call follows; no deposit call precedes it
\* either, except the base-leg deposit of createLiquidity / addLiquidity,
\* which has already returned successfully when the halted lookup is the
\* asset leg's.
C1_HaltedEndsInvocation ==
    \A i \in DOMAIN lookups :
        HaltedLookup(i) =>
            /\ Done
            /\ i = Len(lookups)
            /\ CausedBy("core_chain_halted")
            /\ lookups[i].leg \in {"approve", "pool"} =>
                   FailedWith("core_chain_halted")
            /\ lookups[i].leg # "asset" => deposits = <<>>
            /\ lookups[i].leg = "asset" =>
                   /\ TwoLeg
                   /\ Len(deposits) <= 1
                   /\ \A j \in DOMAIN deposits :
                          deposits[j].leg = "base" /\ deposits[j].outcome = "ok"

C1_Witness ==
    /\ op = "createLiquidity"
    /\ Len(lookups) = 2
    /\ HaltedLookup(2)
    /\ Len(deposits) = 1
    /\ deposits[1].outcome = "ok"

IsApproveOp == op \in {"approveAssetValue", "isAssetValueApproved"}
Trivial == IF args.type = "checkOnly" THEN "true" ELSE "approved"
GasOrSynth == args.assetValue.isGasAsset \/ args.assetValue.isSynthetic

\* C2, as stated: for a gas-native or synthetic asset the approval operation
\* returns true / "approved" and invokes no wallet capability.
C2_TrivialApprovalAlways ==
    IsApproveOp /\ Done /\ GasOrSynth =>
        result = Resolved(Trivial) /\ walletCalls = <<>>

\* C2, amended: for a gas-native or synthetic asset the approval operation
\* never invokes isApproved or approve; it returns true / "approved" whenever
\* the inbound route of the asset's chain resolves, and fails with that
\* lookup's RouteNotFound or ChainHalted otherwise.
C2_TrivialApprovalWhenRouted ==
    IsApproveOp /\ Done /\ GasOrSynth =>
        /\ walletCalls = <<>>
        /\ Len(lookups) = 1
        /\ lookups[1].error = NoError => result = Resolved(Trivial)
        /\ lookups[1].error # NoError =>
               /\ result = Rejected(lookups[1].error)
               /\ result.error.tag \in {"core_inbound_data_not_found",
                                        "core_chain_halted"}

C2_Witness ==
    /\ op = "approveAssetValue"
    /\ Done
    /\ args.assetValue.chain = "ETH"
    /\ args.assetValue.isGasAsset
    /\ wallets["ETH"].approve
    /\ lookups[1].api
    /\ result = Resolved("approved")

BasePlanned ==
    \/ op = "createLiquidity"
    \/ /\ op = "addLiquidity"
       /\ args.baseAssetValue # Undefined
       /\ args.baseAssetValue.baseValue > 0
       /\ args.mode \in {"sym", "baseAsset"}

BaseTag ==
    IF op = "createLiquidity"
    THEN "core_transaction_create_liquidity_base_error"
    ELSE "core_transaction_add_liquidity_base_error"

AssetTag ==
    IF op = "createLiquidity"
    THEN "core_transaction_create_liquidity_asset_error"
    ELSE "core_transaction_add_liquidity_asset_error"

BaseReturnedOk == deposits # <<>> /\ deposits[1].leg = "base"
                  /\ deposits[1].outcome = "ok"

\* C3: in createLiquidity and addLiquidity with a base leg, the asset leg
\* (its route lookup and its deposit) starts only after the base-leg deposit
\* has returned successfully; when the base-leg deposit throws, the
\* invocation is rejected with the base-leg tag carrying the original error
\* and the asset leg is never attempted.
C3_AssetLegAfterBaseLeg ==
    TwoLeg /\ BasePlanned =>
        /\ \A i \in DOMAIN lookups : lookups[i].leg = "asset" => BaseReturnedOk
        /\ \A i \in DOMAIN deposits :
               deposits[i].leg = "asset" => i = 2 /\ BaseReturnedOk
        /\ \A i \in DOMAIN deposits :
               deposits[i].leg = "base" /\ deposits[i].outcome = "throw" =>
                   /\ Done
                   /\ result = Rejected([tag |-> BaseTag,
                                         cause |-> "deposit_error"])
                   /\ Len(deposits) = 1
                   /\ \A k \in DOMAIN lookups : lookups[k].leg # "asset"

C3_Witness ==
    /\ op = "createLiquidity"
    /\ Done
    /\ Len(deposits) = 1
    /\ deposits[1].leg = "base"
    /\ deposits[1].outcome = "throw"
    /\ Len(legs) = 2

AssetLegFailed == TwoLeg /\ Done /\ BaseReturnedOk /\ result.status = "rejected"

\* C4, as stated: when the base-leg deposit succeeded and the asset leg then
\* fails, the invocation is rejected with the asset-leg tag and exactly one
\* deposit call was made.
C4_ExactlyOneDepositCall ==
    AssetLegFailed => result.error.tag = AssetTag /\ Len(deposits) = 1

\* C4, amended: when the base-leg deposit succeeded and the asset leg then
\* fails, the invocation is rejected with the asset-leg tag, the base-leg
\* deposit stays the only successful deposit call, and nothing is called
\* after the failure: one deposit call was made when the asset leg's route
\* lookup failed, and two (the second being the asset-leg deposit that threw)
\* when the asset-leg deposit failed.
C4_NoCallAfterAssetFailure ==
    AssetLegFailed =>
        /\ result.error.tag = AssetTag
        /\ Len(lookups) = 2
        /\ lookups[2].leg = "asset"
        /\ \A i \in DOMAIN deposits : deposits[i].outcome = "ok" <=> i = 1
        /\ IF lookups[2].error # NoError
           THEN Len(deposits) = 1 /\ result.error.cause = lookups[2].error.tag
           ELSE /\ Len(deposits) = 2
                /\ deposits[2].leg = "asset"
                /\ deposits[2].outcome = "throw"
                /\ result.error.cause = "deposit_error"

C4_Witness ==
    /\ op = "addLiquidity"
    /\ AssetLegFailed
    /\ Len(deposits) = 1
    /\ lookups[2].error.tag = "core_inbound_data_not_found"

IsProtocolOp == op \in {"register", "nodeAction"}
FlagSet(m) == m.HALTCHAINGLOBAL >= 1 \/ m.HALTTHORCHAIN >= 1
MinimumOf(chain) == getMinAmountByChain(chain)

GivenToProtocol(d) ==
    IF op = "register"
    THEN /\ d.assetValue = args.assetValue
         /\ d.memo.type = "~"
         /\ d.memo.name = args.name
    ELSE /\ d.assetValue = IF args.type = "BOND" THEN args.assetValue
                           ELSE MinimumOf(pluginChain)
         /\ d.memo.type = args.type
         /\ d.memo.address = args.address

\* C5: register and nodeAction (through depositToProtocol) fail with
\* ChainHalted without calling deposit whenever the fetched global or
\* chain-specific halt flag is >= 1; when both are below 1, deposit is called
\* exactly once, with an empty recipient, the given memo and asset value, no
\* router and no fee rate.
C5_ProtocolHaltGate ==
    IsProtocolOp =>
        /\ Len(mimirs) <= 1
        /\ pc \in {"await", "done"} => Len(mimirs) = 1
        /\ \A i \in DOMAIN mimirs :
               IF FlagSet(mimirs[i])
               THEN /\ Done
                    /\ result = Rejected(SwapKitError("thorchain_chain_halted"))
                    /\ deposits = <<>>
               ELSE /\ Len(deposits) = 1
                    /\ deposits[1].recipient = ""
                    /\ deposits[1].router = <<>>
                    /\ deposits[1].feeRate = <<>>
                    /\ GivenToProtocol(deposits[1])
                    /\ ~FailedWith("thorchain_chain_halted")

C5_Witness ==
    /\ op = "nodeAction"
    /\ Done
    /\ mimirs = <<[HALTCHAINGLOBAL |-> 0, HALTTHORCHAIN |-> -1]>>
    /\ Len(deposits) = 1
    /\ deposits[1].outcome = "ok"

WithdrawMemoTypes == {"saver-", "-"}

\* C6: the basis points encoded in a generated savings-withdraw memo and in a
\* generated withdraw memo lie in [0, 10000].
C6_BasisPointsInRange ==
    \A i \in DOMAIN deposits :
        deposits[i].memo.type \in WithdrawMemoTypes =>
            /\ deposits[i].memo.basisPoints >= 0
            /\ deposits[i].memo.basisPoints <= 10000

NativeOfProtocol ==
    <<pluginChain, IF pluginChain = "MAYA" THEN "CACAO" ELSE "RUNE">>

ProvidedAsset == <<args.assetValue.chain, args.assetValue.symbol>>

ExpectedTarget ==
    CASE args.from = "sym" /\ args.to = "sym" -> <<>>
      [] args.from = "sym" /\ args.to = "baseAsset" -> NativeOfProtocol
      [] args.from = "sym" /\ args.to = "asset" -> ProvidedAsset
      [] args.from = "baseAsset" /\ args.to = "sym" -> <<>>
      [] args.from = "baseAsset" /\ args.to = "baseAsset" -> <<>>
      [] args.from = "baseAsset" /\ args.to = "asset" -> <<>>
      [] args.from = "asset" /\ args.to = "sym" -> <<>>
      [] args.from = "asset" /\ args.to = "baseAsset" -> NativeOfProtocol
      [] args.from = "asset" /\ args.to = "asset" -> <<>>

\* C7: with no caller-supplied memo, the target asset withdraw encodes is,
\* for each of the nine (from, to) combinations: the protocol chain's native
\* asset when to = baseAsset and from is not baseAsset; none when from = to =
\* sym or from is baseAsset or asset; the provided assetValue otherwise.
C7_WithdrawTargetAsset ==
    op = "withdraw" /\ args.memo = NoMemo =>
        /\ \A i \in DOMAIN legs :
               legs[i].memo.type = "-" /\ legs[i].memo.targetAsset = ExpectedTarget
        /\ \A i \in DOMAIN deposits :
               deposits[i].memo.type = "-"
               /\ deposits[i].memo.targetAsset = ExpectedTarget

C7_Witness ==
    /\ op = "withdraw"
    /\ args.memo = NoMemo
    /\ args.from = "asset"
    /\ args.to = "baseAsset"
    /\ pluginChain = "MAYA"
    /\ Len(deposits) = 1
    /\ deposits[1].memo.targetAsset = <<"MAYA", "CACAO">>

ExpectedValue ==
    CASE op = "nodeAction" /\ args.type = "BOND" -> args.assetValue
      [] op = "nodeAction" /\ args.type # "BOND" -> MinimumOf(pluginChain)
      [] op = "savings" /\ args.type = "add" -> args.assetValue
      [] op = "savings" /\ args.type # "add" -> MinimumOf(args.assetValue.chain)
      [] op = "withdraw" /\ args.from = "asset" ->
             MinimumOf(args.assetValue.chain)
      [] op = "withdraw" /\ args.from # "asset" -> MinimumOf(pluginChain)

\* C8: the value handed to deposit is the caller's assetValue for nodeAction
\* bond and savings add only; otherwise it is a minimum transferable amount,
\* whatever the caller's value: the protocol chain's for unbond and leave, the
\* asset chain's for savings withdraw, and for withdraw the asset chain's
\* when from = asset and the protocol chain's otherwise.  The unbond memo
\* still carries the numeric amount of the caller's assetValue.
C8_TransferredValue ==
    op \in {"nodeAction", "savings", "withdraw"} =>
        \A i \in DOMAIN deposits :
            /\ deposits[i].assetValue = ExpectedValue
            /\ op = "nodeAction" /\ args.type = "UNBOND" =>
                   /\ deposits[i].memo.type = "UNBOND"
                   /\ deposits[i].memo.amount = args.assetValue.baseValue

C8_Witness ==
    /\ op = "nodeAction"
    /\ args.type = "UNBOND"
    /\ args.assetValue.baseValue = MaxAmount
    /\ Len(deposits) = 1
    /\ deposits[1].assetValue.baseValue = 0
    /\ deposits[1].assetValue # args.assetValue
    /\ deposits[1].memo.amount = MaxAmount

Positive(av) == av # Undefined /\ av.baseValue > 0
BaseLegActive == Positive(args.baseAssetValue) /\ args.mode \in {"sym", "baseAsset"}
AssetLegActive == Positive(args.assetValue) /\ args.mode \in {"sym", "asset"}

\* C9: addLiquidity fails with InvalidParams, before any route lookup or
\* deposit call, whenever no leg is active (base leg: baseAssetValue > 0 and
\* mode sym or baseAsset; asset leg: assetValue > 0 and mode sym or asset),
\* for every mode and every isPendingSymmAsset.
C9_NoActiveLegInvalidParams ==
    op = "addLiquidity" /\ ~(BaseLegActive \/ AssetLegActive) =>
        /\ Done
        /\ result = Rejected(SwapKitError(
               "core_transaction_add_liquidity_invalid_params"))
        /\ lookups = <<>>
        /\ deposits = <<>>

C9_Witness ==
    /\ op = "addLiquidity"
    /\ Positive(args.baseAssetValue)
    /\ args.mode = "asset"
    /\ ~Positive(args.assetValue)
    /\ args.isPendingSymmAsset
    /\ FailedWith("core_transaction_add_liquidity_invalid_params")

OwnChain(chain) ==
    \/ pluginChain = "THOR" /\ chain = "THOR"
    \/ pluginChain = "MAYA" /\ chain = "MAYA"

RouteErrors == {"core_inbound_data_not_found", "core_chain_halted"}

\* C10: resolving the inbound route of the adapter's own protocol chain never
\* calls the inbound-address API and yields gas rate 0 and halted = false, so
\* a pool deposit of a protocol-chain asset is never rejected with
\* RouteNotFound or ChainHalted.
C10_OwnChainRoute ==
    /\ \A i \in DOMAIN lookups :
           OwnChain(lookups[i].chain) =>
               /\ ~lookups[i].api
               /\ lookups[i].error = NoError
               /\ i = Len(lookups) /\ result.status = "rejected" =>
                      /\ result.error.tag \notin RouteErrors
                      /\ result.error.cause \notin RouteErrors
    /\ pc = "deposit" /\ OwnChain(Head(legs).assetValue.chain) =>
           /\ ~route.halted
           /\ parseInt(route.gas_rate) = 0
           /\ route.gas_rate # <<>>
    /\ \A i \in DOMAIN deposits :
           deposits[i].leg # "protocol" /\ OwnChain(deposits[i].assetValue.chain)
               => deposits[i].feeRate = <<0>>

C10_Witness ==
    /\ pluginChain = "MAYA"
    /\ op = "depositToPool"
    /\ args.assetValue.chain = "MAYA"
    /\ Done
    /\ ~lookups[1].api
    /\ result = Resolved("tx")

====
